---- MODULE Spec2Model ----
(***************************************************************************)
(* Model of capture_emotions.py: framing of the byte stream received from  *)
(* the Synapse server (split_data), decoding of each frame                 *)
(* (simplejson.loads) and the correlation of poorSignalLevel, eegPower,    *)
(* eSense.attention and eSense.meditation messages into power level        *)
(* records (EegData.populate_from_data); then the timed receive loop       *)
(* (get_data_for_n_seconds), eeg_data_from_chunks and capture_emotion,     *)
(* which saves the two files of a capture.                                 *)
(*                                                                         *)
(* Text is a sequence of lexical atoms: the punctuation characters, the    *)
(* carriage return, a blank, a quoted key, or a number literal.            *)
(***************************************************************************)
EXTENDS Integers, Sequences, FiniteSets, TLC

VARIABLES
    data_lines,     \* populate_from_data: the lines the for loop has taken so far
    raw_eeg,        \* EegData.raw_eeg
    power_levels,   \* EegData.power_levels
    poorSigLev,     \* populate_from_data local: cached poorSignalLevel message
    eegPow,         \* populate_from_data local: cached eegPower message
    attention,      \* populate_from_data local: cached attention message
    error,          \* the exception that ended populate_from_data, or None
    output,         \* split_data: its argument
    splitted,       \* split_data: its return value
    pc,             \* split_data: "start" before the call, "done" after it
    cpc,            \* capture_emotion and its callees: the statement to run next
    configured,     \* whether SECONDS_TO_WAIT_BEFORE_CAPTURING is defined
    duration,       \* capture_emotion: its parameter
    now,            \* time.time(), counted from the start of the capture
    end_time,       \* get_data_for_n_seconds local
    recv_started,   \* the time at which the latest s.recv was called
    last_recv,      \* what the latest s.recv returned
    chunk_list,     \* get_data_for_n_seconds: chunks; eeg_data_from_chunks: chunk_list
    closed,         \* how many times s.close() has been called
    folder,         \* whether person_name/emotion exists
    raw_file,       \* the lines of raw_eeg.txt, None while it does not exist
    levels_file     \* the lines of power_levels.txt, None while it does not exist

vars == <<data_lines, raw_eeg, power_levels, poorSigLev, eegPow, attention,
          error, output, splitted, pc, cpc, configured, duration, now,
          end_time, recv_started, last_recv, chunk_list, closed, folder,
          raw_file, levels_file>>

eegVars == <<data_lines, raw_eeg, power_levels, poorSigLev, eegPow,
             attention, error>>

splitVars == <<output, splitted, pc>>

netVars == <<now, end_time, recv_started, last_recv, chunk_list, closed>>

fileVars == <<folder, raw_file, levels_file>>

captureVars == <<cpc, configured, duration, netVars, fileVars>>

-----------------------------------------------------------------------------
(* Bounds *)

MaxLines == 5

MaxOutput == 5

-----------------------------------------------------------------------------
(* Python values.  A decoded JSON number n is [num |-> n], a decoded JSON  *)
(* string s is [str |-> s], and a decoded JSON object is the function from *)
(* its keys to its decoded values, the empty function for {}.              *)

None == <<>>

NoError == "None"

CR == "\r"

Num(n) == [num |-> n]

Str(s) == [str |-> s]

\* the tuple of numbers ns
Nums(ns) == [i \in 1..Len(ns) |-> Num(ns[i])]

IsNumber(v) == "num" \in DOMAIN v

IsString(v) == "str" \in DOMAIN v

IsDict(v) == ~IsNumber(v) /\ ~IsString(v)

-----------------------------------------------------------------------------
(* simplejson.loads, for the JSON texts that the atoms can spell: objects,  *)
(* strings (a quoted key is a JSON string) and non-negative integers.       *)
(* Number atoms that follow one another spell one number; blanks and        *)
(* carriage returns are whitespace, allowed around every token.             *)

NumberValue ==
    ("0" :> 0) @@ ("1" :> 1) @@ ("2" :> 2) @@ ("3" :> 3) @@ ("5" :> 5) @@
    ("7" :> 7) @@ ("10" :> 10) @@ ("11" :> 11) @@ ("20" :> 20) @@
    ("21" :> 21) @@ ("30" :> 30) @@ ("31" :> 31) @@ ("40" :> 40) @@
    ("41" :> 41) @@ ("50" :> 50) @@ ("51" :> 51) @@ ("60" :> 60) @@
    ("61" :> 61) @@ ("44" :> 44) @@ ("55" :> 55) @@ ("65" :> 65) @@
    ("66" :> 66)

Keys == {"timestamp", "rawEeg", "poorSignalLevel", "eegPower", "eSense",
         "attention", "meditation", "lowAlpha", "highAlpha", "lowBeta",
         "highBeta", "lowGamma", "highGamma"}

Whitespace == {" ", CR}

Failed == [ok |-> FALSE, val |-> None, next |-> 0]

\* the position of the first atom from i on that is not whitespace,
\* Len(toks) + 1 when there is none
SkipWhitespace(toks, i) ==
    LET inked == {j \in i..Len(toks) : toks[j] \notin Whitespace}
    IN  IF inked = {} THEN Len(toks) + 1
        ELSE CHOOSE j \in inked : \A k \in inked : j <= k

\* the position of the last atom of the run of number atoms that starts at i
NumberEnd(toks, i) ==
    CHOOSE j \in i..Len(toks) :
        /\ \A k \in i..j : toks[k] \in DOMAIN NumberValue
        /\ j = Len(toks) \/ toks[j + 1] \notin DOMAIN NumberValue

RECURSIVE NumberOf(_, _, _)
\* the number that the digits of the atoms i..j spell
NumberOf(toks, i, j) ==
    IF i = j THEN NumberValue[toks[i]]
    ELSE NumberOf(toks, i, j - 1)
             * (IF NumberValue[toks[j]] < 10 THEN 10 ELSE 100)
         + NumberValue[toks[j]]

RECURSIVE ParseValue(_, _)
RECURSIVE ParseMembers(_, _, _)

\* the number that starts at p, j being the last of the number atoms that
\* follow one another from p: a number that starts with 0 is 0 and ends
\* there, whatever digits follow
NumberAt(toks, p, j) ==
    IF toks[p] = "0" THEN [ok |-> TRUE, val |-> Num(0), next |-> p + 1]
    ELSE [ok |-> TRUE, val |-> Num(NumberOf(toks, p, j)), next |-> j + 1]

\* an object whose opening brace is followed, blanks apart, by the atom at q
ObjectAt(toks, q) ==
    IF q <= Len(toks) /\ toks[q] = "}"
    THEN [ok |-> TRUE, val |-> None, next |-> q + 1]
    ELSE ParseMembers(toks, q, None)

\* the value that starts with the atom at p
ValueAt(toks, p) ==
    IF p > Len(toks) THEN Failed
    ELSE IF toks[p] \in DOMAIN NumberValue
         THEN NumberAt(toks, p, NumberEnd(toks, p))
    ELSE IF toks[p] \in Keys
         THEN [ok |-> TRUE, val |-> Str(toks[p]), next |-> p + 1]
    ELSE IF toks[p] = "{" THEN ObjectAt(toks, SkipWhitespace(toks, p + 1))
    ELSE Failed

\* one JSON value from position i on
ParseValue(toks, i) == ValueAt(toks, SkipWhitespace(toks, i))

\* what follows a member of an object, n being the place of the first atom
\* after its value v: the closing brace, or a comma and more members
MemberEnd(toks, obj, v, n) ==
    IF ~v.ok \/ n > Len(toks) THEN Failed
    ELSE IF toks[n] = "}" THEN [ok |-> TRUE, val |-> obj, next |-> n + 1]
    ELSE IF toks[n] = "," THEN ParseMembers(toks, n + 1, obj)
    ELSE Failed

\* the member with its key at k and its value v; a repeated key keeps its
\* last value, as a Python dict does
MemberValue(toks, k, acc, v) ==
    MemberEnd(toks, (toks[k] :> v.val) @@ acc, v,
              SkipWhitespace(toks, v.next))

\* the member with its key at k and its colon at c
MemberAt(toks, k, c, acc) ==
    IF c > Len(toks) \/ toks[k] \notin Keys \/ toks[c] # ":" THEN Failed
    ELSE MemberValue(toks, k, acc, ParseValue(toks, c + 1))

\* members of an object from position i on, acc holding the pairs read so
\* far
ParseMembers(toks, i, acc) ==
    MemberAt(toks, SkipWhitespace(toks, i),
             SkipWhitespace(toks, SkipWhitespace(toks, i) + 1), acc)

\* [ok, val]: ok is FALSE where simplejson.loads raises JSONDecodeError
loads(line) ==
    LET r == ParseValue(line, 1)
    IN  IF r.ok /\ SkipWhitespace(line, r.next) = Len(line) + 1
        THEN [ok |-> TRUE, val |-> r.val]
        ELSE [ok |-> FALSE, val |-> None]

\* `key in d` for a dict d
In(key, d) == key \in DOMAIN d

\* `key in v` for a decoded dict or string v; of the strings that the atoms
\* spell, the only one that contains a key is the key itself
Contains(v, key) == IF IsString(v) THEN v.str = key ELSE In(key, v)

\* the exception that v[key] raises, if any
Subscript(v, key) ==
    IF ~IsDict(v) THEN "TypeError"
    ELSE IF ~In(key, v) THEN "KeyError"
    ELSE NoError

\* truth value of None or of a non-empty dict or string
Truthy(d) == d # None

-----------------------------------------------------------------------------
(* The lines the server is taken to send, and their decoded form *)

Timestamped(body, t) == <<"{">> \o body \o <<",", "timestamp", ":", t, "}">>

RawEegLine(t, v) == Timestamped(<<"rawEeg", ":", v>>, t)

PoorSignalLine(t, v) == Timestamped(<<"poorSignalLevel", ":", v>>, t)

EegPowerLine(t, b) ==
    Timestamped(<<"eegPower", ":", "{",
                  "lowAlpha", ":", b[1], ",", "highAlpha", ":", b[2], ",",
                  "lowBeta", ":", b[3], ",", "highBeta", ":", b[4], ",",
                  "lowGamma", ":", b[5], ",", "highGamma", ":", b[6],
                  "}">>, t)

AttentionLine(t, v) ==
    Timestamped(<<"eSense", ":", "{", "attention", ":", v, "}">>, t)

MeditationLine(t, v) ==
    Timestamped(<<"eSense", ":", "{", "meditation", ":", v, "}">>, t)

BothLine(t, a, m) ==
    Timestamped(<<"eSense", ":", "{", "attention", ":", a, ",",
                  "meditation", ":", m, "}">>, t)

\* one frame carrying two facets
PoorSignalMeditationLine(t, v, m) ==
    Timestamped(<<"poorSignalLevel", ":", v, ",",
                  "eSense", ":", "{", "meditation", ":", m, "}">>, t)

\* not JSON, although it ends with the closing brace
MalformedLine == <<"rawEeg", ":", "5", "}">>

\* a raw sample whose level is an object instead of a number
ObjectLevelLine(t) == Timestamped(<<"rawEeg", ":", "{", "}">>, t)

\* a signal quality frame whose level is an object instead of a number
ObjectSignalLine(t) == Timestamped(<<"poorSignalLevel", ":", "{", "}">>, t)

\* a frame that is a JSON string, not an object
StringLine(text) == <<text>>

Lines ==
    { RawEegLine("1", "5"), RawEegLine("2", "7"),
      PoorSignalLine("1", "0"), PoorSignalLine("2", "3"),
      EegPowerLine("1", <<"10", "20", "30", "40", "50", "60">>),
      EegPowerLine("2", <<"11", "21", "31", "41", "51", "61">>),
      AttentionLine("1", "55"), AttentionLine("2", "44"),
      MeditationLine("1", "65"), MeditationLine("2", "66"),
      BothLine("1", "55", "65"),
      PoorSignalMeditationLine("1", "0", "65"),
      MalformedLine }

\* loads(line) for each line of Lines, worked out once
Decoded == [line \in Lines |-> loads(line)]

\* simplejson.loads(line)
Decode(line) == IF line \in DOMAIN Decoded THEN Decoded[line] ELSE loads(line)

-----------------------------------------------------------------------------
(* EegData *)

\* variant: the sample is put in front instead of at the end
add_raw_eeg_front(self_raw_eeg, timestamp, level) ==
    <<<<timestamp, level>>>> \o self_raw_eeg

add_raw_eeg(self_raw_eeg, timestamp, level) ==
    Append(self_raw_eeg, <<timestamp, level>>)

\* variant: lowAlpha and highAlpha change places in the record
add_power_levels_swapped(self_power_levels, timestamp, poorSignalLevel, lowAlpha, highAlpha, lowBeta, highBeta, lowGamma, highGamma, attention_, meditation) ==
    Append(self_power_levels,
           <<timestamp, poorSignalLevel, highAlpha, lowAlpha, lowBeta,
             highBeta, lowGamma, highGamma, attention_, meditation>>)

\* variant: a record equal to the last one collected is not added again
add_power_levels_dedup(self_power_levels, timestamp, poorSignalLevel, lowAlpha, highAlpha, lowBeta, highBeta, lowGamma, highGamma, attention_, meditation) ==
    LET levels == <<timestamp, poorSignalLevel, lowAlpha, highAlpha, lowBeta,
                    highBeta, lowGamma, highGamma, attention_, meditation>>
    IN  IF self_power_levels # <<>>
           /\ self_power_levels[Len(self_power_levels)] = levels
        THEN self_power_levels
        ELSE Append(self_power_levels, levels)

add_power_levels(self_power_levels, timestamp, poorSignalLevel, lowAlpha, highAlpha, lowBeta, highBeta, lowGamma, highGamma, attention_, meditation) ==
    Append(self_power_levels,
           <<timestamp, poorSignalLevel, lowAlpha, highAlpha, lowBeta,
             highBeta, lowGamma, highGamma, attention_, meditation>>)

BandKeys == <<"lowAlpha", "highAlpha", "lowBeta", "highBeta", "lowGamma",
              "highGamma">>

Raise(s, exception) == [s EXCEPT !.error = exception]

\* variant: the attention timestamp is left out of the comparison
AssertTimestampsNoAttention(s, message) ==
    IF Subscript(s.poorSigLev, "timestamp") # NoError
    THEN Subscript(s.poorSigLev, "timestamp")
    ELSE IF Subscript(s.eegPow, "timestamp") # NoError
         THEN Subscript(s.eegPow, "timestamp")
    ELSE IF s.poorSigLev["timestamp"] # s.eegPow["timestamp"]
         THEN "AssertionError"
    ELSE IF Subscript(message, "timestamp") # NoError
         THEN Subscript(message, "timestamp")
    ELSE IF s.eegPow["timestamp"] # message["timestamp"]
         THEN "AssertionError"
    ELSE NoError

\* variant: the assert is compiled away
AssertTimestampsStripped(s, message) == NoError

\* variant: the meditation message's own timestamp is left out of the
\* comparison
AssertTimestampsNoMessage(s, message) ==
    IF Subscript(s.poorSigLev, "timestamp") # NoError
    THEN Subscript(s.poorSigLev, "timestamp")
    ELSE IF Subscript(s.eegPow, "timestamp") # NoError
         THEN Subscript(s.eegPow, "timestamp")
    ELSE IF s.poorSigLev["timestamp"] # s.eegPow["timestamp"]
         THEN "AssertionError"
    ELSE IF Subscript(s.attention, "timestamp") # NoError
         THEN Subscript(s.attention, "timestamp")
    ELSE IF s.eegPow["timestamp"] # s.attention["timestamp"]
         THEN "AssertionError"
    ELSE NoError

\* the assert of populate_from_data: the chained comparison reads the
\* timestamps left to right and stops at the first unequal pair, or at the
\* first subscript that raises
AssertTimestamps(s, message) ==
    IF Subscript(s.poorSigLev, "timestamp") # NoError
    THEN Subscript(s.poorSigLev, "timestamp")
    ELSE IF Subscript(s.eegPow, "timestamp") # NoError
         THEN Subscript(s.eegPow, "timestamp")
    ELSE IF s.poorSigLev["timestamp"] # s.eegPow["timestamp"]
         THEN "AssertionError"
    ELSE IF Subscript(s.attention, "timestamp") # NoError
         THEN Subscript(s.attention, "timestamp")
    ELSE IF s.eegPow["timestamp"] # s.attention["timestamp"]
         THEN "AssertionError"
    ELSE IF Subscript(message, "timestamp") # NoError
         THEN Subscript(message, "timestamp")
    ELSE IF s.attention["timestamp"] # message["timestamp"]
         THEN "AssertionError"
    ELSE NoError

\* variant: the cached messages are never reset
ResetCachedNever(s) == s

\* variant: the cached attention message is not reset
ResetCachedKeepsAttention(s) ==
    [s EXCEPT !.poorSigLev = None, !.eegPow = None]

\* the three assignments that end the meditation branch
ResetCached(s) ==
    [s EXCEPT !.poorSigLev = None, !.eegPow = None, !.attention = None]

\* the exception raised while the arguments of add_power_levels are worked
\* out, left to right, if any; the timestamps have passed the assert
ArgumentsError(s, e_sense) ==
    LET bands == s.eegPow["eegPower"]
    IN  IF ~IsDict(bands) THEN "TypeError"
        ELSE IF \E i \in 1..Len(BandKeys) : ~In(BandKeys[i], bands)
             THEN "KeyError"
        ELSE IF Subscript(s.attention["eSense"], "attention") # NoError
             THEN Subscript(s.attention["eSense"], "attention")
        ELSE Subscript(e_sense, "meditation")

\* the branch taken for a message whose eSense holds meditation
MeditationBranch(s, message, e_sense) ==
    IF Truthy(s.poorSigLev) /\ Truthy(s.eegPow) /\ Truthy(s.attention)
    THEN LET failure == AssertTimestamps(s, message)
             bands == s.eegPow["eegPower"]
         IN  IF failure # NoError THEN Raise(s, failure)
             ELSE IF ArgumentsError(s, e_sense) # NoError
                  THEN Raise(s, ArgumentsError(s, e_sense))
             ELSE ResetCached(
                    [s EXCEPT !.power_levels =
                        add_power_levels(@, message["timestamp"],
                            s.poorSigLev["poorSignalLevel"],
                            bands["lowAlpha"], bands["highAlpha"],
                            bands["lowBeta"], bands["highBeta"],
                            bands["lowGamma"], bands["highGamma"],
                            s.attention["eSense"]["attention"],
                            e_sense["meditation"])])
    ELSE ResetCached(s)

\* the if "eSense" in message block; `in` raises TypeError on a number
ESenseBranch(s, message) ==
    IF Contains(message, "eSense")
    THEN IF Subscript(message, "eSense") # NoError
         THEN Raise(s, Subscript(message, "eSense"))
         ELSE LET e_sense == message["eSense"]
              IN  IF IsNumber(e_sense) THEN Raise(s, "TypeError")
                  ELSE IF Contains(e_sense, "attention")
                       THEN [s EXCEPT !.attention = message]
                  ELSE IF Contains(e_sense, "meditation")
                       THEN MeditationBranch(s, message, e_sense)
                  ELSE s
    ELSE s

\* variant: a raw sample also starts a new group (the slots are cleared)
RawEegBranchResets(s, message) ==
    IF Contains(message, "rawEeg")
    THEN IF Subscript(message, "timestamp") = NoError
         THEN ResetCached([s EXCEPT !.raw_eeg =
                   add_raw_eeg(@, message["timestamp"], message["rawEeg"])])
         ELSE Raise(s, Subscript(message, "timestamp"))
    ELSE s

\* the if "rawEeg" in message block
RawEegBranch(s, message) ==
    IF Contains(message, "rawEeg")
    THEN IF Subscript(message, "timestamp") = NoError
         THEN [s EXCEPT !.raw_eeg =
                   add_raw_eeg(@, message["timestamp"], message["rawEeg"])]
         ELSE Raise(s, Subscript(message, "timestamp"))
    ELSE s

\* variant: a slot that is occupied keeps its message (first value wins)
LoopBodyFirstWins(s, line) ==
    LET decoded == Decode(line)
        message == decoded.val
        s1 == RawEegBranch(s, message)
        s2 == IF Contains(message, "poorSignalLevel") /\ s1.poorSigLev = None
              THEN [s1 EXCEPT !.poorSigLev = message] ELSE s1
        s3 == IF Contains(message, "eegPower") /\ s2.eegPow = None
              THEN [s2 EXCEPT !.eegPow = message] ELSE s2
    IN  IF ~decoded.ok THEN Raise(s, "JSONDecodeError")
        ELSE IF IsNumber(message) THEN Raise(s, "TypeError")
        ELSE IF s1.error # NoError THEN s1
        ELSE ESenseBranch(s3, message)

\* one iteration of the for loop of populate_from_data; decoded is
\* simplejson.loads(line); `in` raises TypeError on a number
LoopBody(s, line) ==
    LET decoded == Decode(line)
        message == decoded.val
        s1 == RawEegBranch(s, message)
        s2 == IF Contains(message, "poorSignalLevel")
              THEN [s1 EXCEPT !.poorSigLev = message] ELSE s1
        s3 == IF Contains(message, "eegPower")
              THEN [s2 EXCEPT !.eegPow = message] ELSE s2
    IN  IF ~decoded.ok THEN Raise(s, "JSONDecodeError")
        ELSE IF IsNumber(message) THEN Raise(s, "TypeError")
        ELSE IF s1.error # NoError THEN s1
        ELSE ESenseBranch(s3, message)

-----------------------------------------------------------------------------
(* split_data *)

RECURSIVE split_no_empty(_, _)
\* variant: empty pieces are left out, as str.split() without a separator
\* leaves them out
split_no_empty(str, sep) ==
    IF \E i \in 1..Len(str) : str[i] = sep
    THEN LET i == CHOOSE i \in 1..Len(str) :
                      /\ str[i] = sep
                      /\ \A j \in 1..(i - 1) : str[j] # sep
         IN  (IF i = 1 THEN <<>> ELSE <<SubSeq(str, 1, i - 1)>>)
             \o split_no_empty(SubSeq(str, i + 1, Len(str)), sep)
    ELSE IF str = <<>> THEN <<<<>>>> ELSE <<str>>

RECURSIVE split(_, _)
\* str.split(sep): the pieces between the occurrences of sep, empty pieces
\* included; always at least one piece
split(str, sep) ==
    IF \E i \in 1..Len(str) : str[i] = sep
    THEN LET i == CHOOSE i \in 1..Len(str) :
                      /\ str[i] = sep
                      /\ \A j \in 1..(i - 1) : str[j] # sep
         IN  <<SubSeq(str, 1, i - 1)>> \o split(SubSeq(str, i + 1, Len(str)), sep)
    ELSE <<str>>

endswith(str, suffix) == Len(str) > 0 /\ str[Len(str)] = suffix

\* splitted[-1].strip == '': the method object itself, never called, is
\* compared with a string, and the two are never equal
StripAttributeEqualsEmpty(str) == FALSE

\* str.strip() for the blank
strip(str) ==
    LET inked == {i \in 1..Len(str) : str[i] # " "}
    IN  IF inked = {} THEN <<>>
        ELSE SubSeq(str, CHOOSE i \in inked : \A j \in inked : i <= j,
                         CHOOSE i \in inked : \A j \in inked : j <= i)

\* variant: only a last fragment that is not empty is looked at, so an
\* empty one is kept
split_data_keeps_empty(out) ==
    LET all == split(out, CR)
    IN  IF all[Len(all)] # <<>> /\ ~endswith(all[Len(all)], "}")
        THEN SubSeq(all, 1, Len(all) - 1)
        ELSE all

\* variant: strip is called, and the closing brace is looked for in the
\* stripped fragment
split_data_stripped(out) ==
    LET all == split(out, CR)
    IN  IF strip(all[Len(all)]) = <<>>
           \/ ~endswith(strip(all[Len(all)]), "}")
        THEN SubSeq(all, 1, Len(all) - 1)
        ELSE all

split_data(out) ==
    LET all == split(out, CR)
    IN  IF StripAttributeEqualsEmpty(all[Len(all)])
           \/ ~endswith(all[Len(all)], "}")
        THEN SubSeq(all, 1, Len(all) - 1)
        ELSE all

-----------------------------------------------------------------------------
(* populate_from_data, one line per step *)

EegState ==
    [raw_eeg |-> raw_eeg, power_levels |-> power_levels,
     poorSigLev |-> poorSigLev, eegPow |-> eegPow, attention |-> attention,
     error |-> error]

EegInit ==
    /\ data_lines = <<>>
    /\ raw_eeg = <<>>
    /\ power_levels = <<>>
    /\ poorSigLev = None
    /\ eegPow = None
    /\ attention = None
    /\ error = NoError

\* the for loop takes its next line
TakeLine(line) ==
    /\ error = NoError
    /\ LET s == LoopBody(EegState, line)
       IN  /\ data_lines' = Append(data_lines, line)
           /\ raw_eeg' = s.raw_eeg
           /\ power_levels' = s.power_levels
           /\ poorSigLev' = s.poorSigLev
           /\ eegPow' = s.eegPow
           /\ attention' = s.attention
           /\ error' = s.error
    /\ UNCHANGED <<splitVars, captureVars>>

ProcessLine(line) ==
    /\ Len(data_lines) < MaxLines
    /\ TakeLine(line)

SplitIdle ==
    /\ output = <<>>
    /\ splitted = <<>>
    /\ pc = "start"

\* no capture is running: populate_from_data or split_data is called alone
CaptureIdle ==
    /\ cpc = "idle"
    /\ configured = FALSE
    /\ duration = 0
    /\ now = 0
    /\ end_time = 0
    /\ recv_started = 0
    /\ last_recv = <<>>
    /\ chunk_list = <<>>
    /\ closed = 0
    /\ folder = FALSE
    /\ raw_file = None
    /\ levels_file = None

Init == EegInit /\ SplitIdle /\ CaptureIdle

Next == \E line \in Lines : ProcessLine(line)

Spec == Init /\ [][Next]_vars

-----------------------------------------------------------------------------
(* split_data applied to every buffer of up to MaxOutput atoms *)

Atoms == {CR, "}", " ", "5"}

Buffers == UNION {[1..n -> Atoms] : n \in 0..MaxOutput}

SplitInit ==
    /\ output \in Buffers
    /\ splitted = <<>>
    /\ pc = "start"

CallSplitData ==
    /\ pc = "start"
    /\ splitted' = split_data(output)
    /\ pc' = "done"
    /\ UNCHANGED <<output, eegVars, captureVars>>

InitSplit == EegInit /\ SplitInit /\ CaptureIdle

NextSplit == CallSplitData

SpecSplit == InitSplit /\ [][NextSplit]_vars

-----------------------------------------------------------------------------
(* populate_from_data on a long list: of data_lines only the line the loop *)
(* is at is kept, and the lengths of the two sequences are capped.         *)

\* the most raw samples collected
MaxSamples == 3

\* the most records collected
MaxRecords == 3

ProcessStreamLine(line) ==
    /\ error = NoError
    /\ LET s == LoopBody(EegState, line)
       IN  /\ Len(s.raw_eeg) <= MaxSamples
           /\ Len(s.power_levels) <= MaxRecords
           /\ data_lines' = <<line>>
           /\ raw_eeg' = s.raw_eeg
           /\ power_levels' = s.power_levels
           /\ poorSigLev' = s.poorSigLev
           /\ eegPow' = s.eegPow
           /\ attention' = s.attention
           /\ error' = s.error
    /\ UNCHANGED <<splitVars, captureVars>>

NextStream == \E line \in Lines : ProcessStreamLine(line)

SpecStream == Init /\ [][NextStream]_vars

-----------------------------------------------------------------------------
(* capture_emotion: the timed receive loop, eeg_data_from_chunks and the   *)
(* saving of the two files.  Time is counted in whole ticks from the       *)
(* moment end_time is computed; a statement takes no time except the two   *)
(* blocking calls, socket.create_connection and s.recv.                    *)

\* the largest number of chunks a capture receives
MaxChunks == 3

\* the longest capture asked for, in ticks
MaxSeconds == 2

\* the longest time a blocking call takes, in ticks
MaxLatency == 2

CHUNK_MAX_SIZE == 256

\* the three frames that open a group, each followed by its carriage
\* return; the attention frame has timestamp t2
GroupOpening(t, t2) ==
    PoorSignalLine(t, "0") \o <<CR>>
      \o EegPowerLine(t, <<"10", "20", "30", "40", "50", "60">>) \o <<CR>>
      \o AttentionLine(t2, "55") \o <<CR>>

\* the opening of a group whose signal quality level is an object
ObjectGroupOpening(t) ==
    ObjectSignalLine(t) \o <<CR>>
      \o EegPowerLine(t, <<"10", "20", "30", "40", "50", "60">>) \o <<CR>>
      \o AttentionLine(t, "55") \o <<CR>>

\* what s.recv(CHUNK_MAX_SIZE) returns: nothing (the peer has closed), a
\* whole frame with its carriage return, the two halves of a frame, a
\* carriage return alone, a malformed frame, the opening of a group with
\* or without one timestamp, a closing meditation frame, a raw sample and
\* the opening of a group with an object where a number is expected, two
\* frames that are JSON strings.  An atom is at least one character.
Chunks ==
    {c \in {<<>>,
            RawEegLine("1", "5") \o <<CR>>,
            SubSeq(RawEegLine("1", "5"), 1, 4),
            SubSeq(RawEegLine("1", "5"), 5, Len(RawEegLine("1", "5"))),
            <<CR>>,
            MalformedLine \o <<CR>>,
            GroupOpening("1", "1"),
            GroupOpening("1", "2"),
            MeditationLine("1", "65") \o <<CR>>,
            ObjectLevelLine("1") \o <<CR>>,
            ObjectGroupOpening("1"),
            StringLine("rawEeg") \o <<CR>>,
            StringLine("lowAlpha") \o <<CR>>} : Len(c) <= CHUNK_MAX_SIZE}

RECURSIVE join_cr(_)
\* variant: the chunks are joined with a carriage return between them
join_cr(chunks) ==
    IF chunks = <<>> THEN <<>>
    ELSE IF Len(chunks) = 1 THEN chunks[1]
    ELSE chunks[1] \o <<CR>> \o join_cr(Tail(chunks))

RECURSIVE join(_)
\* ''.join(chunk_list)
join(chunks) ==
    IF chunks = <<>> THEN <<>>
    ELSE Head(chunks) \o join(Tail(chunks))

\* EegData(): a new object, and the locals of a populate_from_data call
NewEegData ==
    [raw_eeg |-> <<>>, power_levels |-> <<>>, poorSigLev |-> None,
     eegPow |-> None, attention |-> None, error |-> NoError]

RECURSIVE populate_from_data(_, _, _)
\* the for loop of populate_from_data from line i on: it ends with the
\* last line or with the first exception; taken are the lines it took
populate_from_data(s, lines, i) ==
    IF i > Len(lines) \/ s.error # NoError
    THEN [eeg |-> s, taken |-> SubSeq(lines, 1, i - 1)]
    ELSE populate_from_data(LoopBody(s, lines[i]), lines, i + 1)

\* eeg_data_from_chunks(chunk_list): the frames, the object and the
\* exception raised
eeg_data_from_chunks(chunks) ==
    LET raw_data == join(chunks)
        lines == split_data(raw_data)
        r == populate_from_data(NewEegData, lines, 1)
    IN  [data_lines |-> lines, raw_eeg |-> r.eeg.raw_eeg,
         power_levels |-> r.eeg.power_levels, error |-> r.eeg.error]

\* "%.6f" of a whole number of seconds: the digits and six zeros
Fixed6(t) == <<t, ".", "000000">>

\* the number of elements of rows that the loop prints before the first
\* element with a field that is not a number, where "%.6f" or "%d" raises
\* TypeError
Printed(rows) ==
    LET bad == {i \in 1..Len(rows) :
                   \E k \in 1..Len(rows[i]) : ~IsNumber(rows[i][k])}
    IN  IF bad = {} THEN Len(rows)
        ELSE (CHOOSE i \in bad : \A j \in bad : i <= j) - 1

\* print_raw_eeg_tsv: the lines written to outfile, the header line and
\* one line for each sample, and the exception raised, if any
print_raw_eeg_tsv(self_raw_eeg) ==
    LET n == Printed(self_raw_eeg)
    IN  [written |-> <<<<"#", "timestamp", "rawEeg">>>>
                       \o [i \in 1..n |->
                             <<Fixed6(self_raw_eeg[i][1].num),
                               self_raw_eeg[i][2].num>>],
         error |-> IF n = Len(self_raw_eeg) THEN NoError ELSE "TypeError"]

\* print_power_levels_tsv: the lines written to outfile, the header line
\* and one line for each record, and the exception raised, if any
print_power_levels_tsv(self_power_levels) ==
    LET n == Printed(self_power_levels)
    IN  [written |-> <<<<"#", "timestamp", "poorSignalLevel", "lowAlpha",
                         "highAlpha", "lowBeta", "highBeta", "lowGamma",
                         "highGamma", "attention", "meditation">>>>
                       \o [i \in 1..n |->
                             <<Fixed6(self_power_levels[i][1].num)>>
                               \o [k \in 1..9 |->
                                     self_power_levels[i][k + 1].num]],
         error |-> IF n = Len(self_power_levels) THEN NoError
                   ELSE "TypeError"]

\* variant: an exception of the capture is swallowed and the prompt follows
AfterCaptureSwallowed(exception) == "ask"

\* line 228 to line 229: an exception of eeg_data_from_n_seconds_data
\* leaves capture_emotion, nothing catches it
AfterCapture(exception) == IF exception # NoError THEN "raised" ELSE "ask"

CaptureInit ==
    /\ EegInit /\ SplitIdle
    /\ cpc = "announce"
    /\ configured \in BOOLEAN
    /\ duration \in 1..MaxSeconds
    /\ now = 0
    /\ end_time = 0
    /\ recv_started = 0
    /\ last_recv = <<>>
    /\ chunk_list = <<>>
    /\ closed = 0
    /\ folder = FALSE
    /\ raw_file = None
    /\ levels_file = None

\* lines 224-227 of capture_emotion, then line 182 of
\* get_data_for_n_seconds: the name SECONDS_TO_WAIT_BEFORE_CAPTURING is
\* read, and the deadline is computed
Announce ==
    /\ cpc = "announce"
    /\ IF configured
       THEN /\ end_time' = now + duration
            /\ cpc' = "connect"
            /\ error' = error
       ELSE /\ error' = "NameError"
            /\ cpc' = "raised"
            /\ end_time' = end_time
    /\ UNCHANGED <<data_lines, raw_eeg, power_levels, poorSigLev, eegPow,
                   attention, splitVars, configured, duration, now,
                   recv_started, last_recv, chunk_list, closed, fileVars>>

\* line 183: socket.create_connection returns after d ticks
Connect(d) ==
    /\ cpc = "connect"
    /\ now' = now + d
    /\ cpc' = "test"
    /\ UNCHANGED <<eegVars, splitVars, configured, duration, end_time,
                   recv_started, last_recv, chunk_list, closed, fileVars>>

\* line 183: socket.create_connection raises socket.error
ConnectFails ==
    /\ cpc = "connect"
    /\ error' = "socket.error"
    /\ cpc' = "raised"
    /\ UNCHANGED <<data_lines, raw_eeg, power_levels, poorSigLev, eegPow,
                   attention, splitVars, configured, duration, netVars,
                   fileVars>>

\* variant: the loop test is always true while chunks are wanted
LoopTestNoDeadline ==
    /\ cpc = "test"
    /\ cpc' = "recv" /\ recv_started' = now
    /\ UNCHANGED <<eegVars, splitVars, configured, duration, now, end_time,
                   last_recv, chunk_list, closed, fileVars>>

\* line 185: while time.time() < end_time, and the call of s.recv when it
\* is true
LoopTest ==
    /\ cpc = "test"
    /\ IF now < end_time
       THEN cpc' = "recv" /\ recv_started' = now
       ELSE cpc' = "close" /\ recv_started' = recv_started
    /\ UNCHANGED <<eegVars, splitVars, configured, duration, now, end_time,
                   last_recv, chunk_list, closed, fileVars>>

\* line 186: s.recv returns chunk after d ticks and it is appended
Receive(d, chunk) ==
    /\ cpc = "recv"
    /\ Len(chunk_list) < MaxChunks
    /\ now' = now + d
    /\ last_recv' = chunk
    /\ chunk_list' = Append(chunk_list, chunk)
    /\ cpc' = "test"
    /\ UNCHANGED <<eegVars, splitVars, configured, duration, end_time,
                   recv_started, closed, fileVars>>

\* line 186: s.recv raises socket.error; stop_receiving_eeg_data is not
\* reached
ReceiveFails ==
    /\ cpc = "recv"
    /\ error' = "socket.error"
    /\ cpc' = "raised"
    /\ UNCHANGED <<data_lines, raw_eeg, power_levels, poorSigLev, eegPow,
                   attention, splitVars, configured, duration, netVars,
                   fileVars>>

\* lines 187-188: s.close() and the return of chunks; the clock is not
\* read again and the locals of get_data_for_n_seconds are gone
Close ==
    /\ cpc = "close"
    /\ closed' = closed + 1
    /\ now' = 0 /\ end_time' = 0 /\ recv_started' = 0 /\ last_recv' = <<>>
    /\ cpc' = "join"
    /\ UNCHANGED <<eegVars, splitVars, configured, duration, chunk_list,
                   fileVars>>

\* line 202: raw_data = ''.join(chunk_list)
JoinChunks ==
    /\ cpc = "join"
    /\ output' = join(chunk_list)
    /\ cpc' = "split"
    /\ UNCHANGED <<eegVars, splitted, pc, configured, duration, netVars,
                   fileVars>>

\* line 203: data_lines = split_data(raw_data)
SplitRawData ==
    /\ cpc = "split"
    /\ splitted' = split_data(output)
    /\ pc' = "done"
    /\ cpc' = "populate"
    /\ UNCHANGED <<eegVars, output, configured, duration, netVars, fileVars>>

\* lines 204-206 and the return to line 229: the whole call of
\* populate_from_data on a new EegData
Populate ==
    /\ cpc = "populate"
    /\ LET r == populate_from_data(NewEegData, splitted, 1)
       IN  /\ data_lines' = r.taken
           /\ raw_eeg' = r.eeg.raw_eeg
           /\ power_levels' = r.eeg.power_levels
           /\ poorSigLev' = r.eeg.poorSigLev
           /\ eegPow' = r.eeg.eegPow
           /\ attention' = r.eeg.attention
           /\ error' = r.eeg.error
           /\ cpc' = AfterCapture(r.eeg.error)
    /\ UNCHANGED <<splitVars, configured, duration, netVars, fileVars>>

\* lines 229-237: the answer read by raw_input; anything but y or yes
\* starts the capture again with nothing kept
Answer(yes) ==
    /\ cpc = "ask"
    /\ IF yes
       THEN /\ cpc' = "mkdir"
            /\ UNCHANGED <<eegVars, splitVars, chunk_list>>
       ELSE /\ cpc' = "announce"
            /\ data_lines' = <<>> /\ raw_eeg' = <<>> /\ power_levels' = <<>>
            /\ poorSigLev' = None /\ eegPow' = None /\ attention' = None
            /\ error' = NoError
            /\ output' = <<>> /\ splitted' = <<>> /\ pc' = "start"
            /\ chunk_list' = <<>>
    /\ closed' = IF yes THEN closed ELSE 0
    /\ UNCHANGED <<configured, duration, now, end_time, recv_started,
                   last_recv, fileVars>>

\* lines 232-233: os.mkdir(person_emotion_path)
Mkdir ==
    /\ cpc = "mkdir"
    /\ folder' = TRUE
    /\ cpc' = "raw_tsv"
    /\ UNCHANGED <<eegVars, splitVars, configured, duration, netVars,
                   raw_file, levels_file>>

\* lines 146-149 of to_tsv_files: raw_eeg.txt is opened and written; an
\* exception of print_raw_eeg_tsv leaves capture_emotion with what has
\* been written in the file
WriteRawEeg ==
    /\ cpc = "raw_tsv"
    /\ LET r == print_raw_eeg_tsv(raw_eeg)
       IN  /\ raw_file' = r.written
           /\ error' = r.error
           /\ cpc' = IF r.error = NoError THEN "levels_tsv" ELSE "raised"
    /\ UNCHANGED <<data_lines, raw_eeg, power_levels, poorSigLev, eegPow,
                   attention, splitVars, configured, duration, netVars,
                   folder, levels_file>>

\* lines 151-155 of to_tsv_files and the break of line 235:
\* power_levels.txt is opened and written; an exception of
\* print_power_levels_tsv leaves capture_emotion with what has been
\* written in the file
WritePowerLevels ==
    /\ cpc = "levels_tsv"
    /\ LET r == print_power_levels_tsv(power_levels)
       IN  /\ levels_file' = r.written
           /\ error' = r.error
           /\ cpc' = IF r.error = NoError THEN "done" ELSE "raised"
    /\ UNCHANGED <<data_lines, raw_eeg, power_levels, poorSigLev, eegPow,
                   attention, splitVars, configured, duration, netVars,
                   folder, raw_file>>

NextCapture ==
    \/ Announce
    \/ \E d \in 0..MaxLatency : Connect(d)
    \/ ConnectFails
    \/ LoopTest
    \/ \E d \in 0..MaxLatency, chunk \in Chunks : Receive(d, chunk)
    \/ ReceiveFails
    \/ Close
    \/ JoinChunks
    \/ SplitRawData
    \/ Populate
    \/ \E yes \in BOOLEAN : Answer(yes)
    \/ Mkdir
    \/ WriteRawEeg
    \/ WritePowerLevels

SpecCapture == CaptureInit /\ [][NextCapture]_vars

-----------------------------------------------------------------------------
(* Vocabulary of the properties *)


Msg(line) == Decode(line).val

HasRaw(m) == In("rawEeg", m)

HasSignalQuality(m) == In("poorSignalLevel", m)

HasPowerBands(m) == In("eegPower", m)

HasAttention(m) == In("eSense", m) /\ In("attention", m["eSense"])

HasMeditation(m) == In("eSense", m) /\ In("meditation", m["eSense"])

\* a frame of one kind: it decodes and carries that facet and no other
SignalQualityFrame(line) ==
    /\ Decode(line).ok /\ HasSignalQuality(Msg(line))
    /\ ~HasRaw(Msg(line)) /\ ~HasPowerBands(Msg(line))
    /\ ~In("eSense", Msg(line))

PowerBandsFrame(line) ==
    /\ Decode(line).ok /\ HasPowerBands(Msg(line))
    /\ ~HasRaw(Msg(line)) /\ ~HasSignalQuality(Msg(line))
    /\ ~In("eSense", Msg(line))

AttentionFrame(line) ==
    /\ Decode(line).ok /\ HasAttention(Msg(line))
    /\ ~HasMeditation(Msg(line))
    /\ ~HasRaw(Msg(line)) /\ ~HasSignalQuality(Msg(line))
    /\ ~HasPowerBands(Msg(line))

MeditationFrame(line) ==
    /\ Decode(line).ok /\ HasMeditation(Msg(line))
    /\ ~HasAttention(Msg(line))
    /\ ~HasRaw(Msg(line)) /\ ~HasSignalQuality(Msg(line))
    /\ ~HasPowerBands(Msg(line))

\* a step of populate_from_data, and the line it took
Stepped == data_lines' # data_lines

Taken == data_lines'[Len(data_lines')]

LastLine == data_lines[Len(data_lines)]

SlotsEmpty == poorSigLev = None /\ eegPow = None /\ attention = None

SlotsOccupied == poorSigLev # None /\ eegPow # None /\ attention # None

\* the record the four messages of a group make
GroupRecord(sq, pb, att, med) ==
    <<med["timestamp"], sq["poorSignalLevel"],
      pb["eegPower"]["lowAlpha"], pb["eegPower"]["highAlpha"],
      pb["eegPower"]["lowBeta"], pb["eegPower"]["highBeta"],
      pb["eegPower"]["lowGamma"], pb["eegPower"]["highGamma"],
      att["eSense"]["attention"], med["eSense"]["meditation"]>>

SameTimestamp(sq, pb, att, med) ==
    /\ sq["timestamp"] = pb["timestamp"]
    /\ pb["timestamp"] = att["timestamp"]
    /\ att["timestamp"] = med["timestamp"]

-----------------------------------------------------------------------------
(* Properties of populate_from_data *)

\* C1: group completion law.  When the last four lines taken are a
\* signal-quality, a power-bands, an attention and a meditation frame with
\* one timestamp, the meditation step appends exactly one record, made of
\* the timestamp, the signal-quality frame's poorSignalLevel, the six
\* eegPower values in the order lowAlpha, highAlpha, lowBeta, highBeta,
\* lowGamma, highGamma, the attention and the meditation; the three frames
\* before it append nothing.
C1_GroupCompletion ==
    [][Stepped =>
        LET n == Len(data_lines')
        IN  /\ (SignalQualityFrame(Taken) \/ PowerBandsFrame(Taken)
                  \/ AttentionFrame(Taken))
               => power_levels' = power_levels /\ error' = NoError
            /\ (/\ n >= 4
                /\ SignalQualityFrame(data_lines'[n - 3])
                /\ PowerBandsFrame(data_lines'[n - 2])
                /\ AttentionFrame(data_lines'[n - 1])
                /\ MeditationFrame(data_lines'[n])
                /\ SameTimestamp(Msg(data_lines'[n - 3]),
                                 Msg(data_lines'[n - 2]),
                                 Msg(data_lines'[n - 1]), Msg(data_lines'[n])))
               => /\ error' = NoError
                  /\ power_levels' =
                       Append(power_levels,
                              GroupRecord(Msg(data_lines'[n - 3]),
                                          Msg(data_lines'[n - 2]),
                                          Msg(data_lines'[n - 1]),
                                          Msg(data_lines'[n])))
    ]_vars

\* the example of the specification: four frames with timestamp 1, taken
\* from the empty slots of a new call, have made its one record
C1_Witness ==
    /\ data_lines = <<PoorSignalLine("1", "0"),
                      EegPowerLine("1", <<"10", "20", "30", "40", "50", "60">>),
                      AttentionLine("1", "55"), MeditationLine("1", "65")>>
    /\ power_levels = <<Nums(<<1, 0, 10, 20, 30, 40, 50, 60, 55, 65>>)>>
    /\ error = NoError

\* C2: timestamp-mismatch law.  A meditation frame taken while the three
\* slots are occupied and the four timestamps are not all equal ends the
\* processing with an error and leaves power_levels as it was.
C2_TimestampMismatch ==
    [][(/\ Stepped
        /\ MeditationFrame(Taken)
        /\ SlotsOccupied
        /\ ~SameTimestamp(poorSigLev, eegPow, attention, Msg(Taken)))
       => error' # NoError /\ power_levels' = power_levels
    ]_vars

\* a group whose attention timestamp differs from the other three has been
\* rejected
C2_Witness ==
    /\ error = "AssertionError"
    /\ MeditationFrame(LastLine)
    /\ SlotsOccupied
    /\ poorSigLev["timestamp"] = eegPow["timestamp"]
    /\ eegPow["timestamp"] = Msg(LastLine)["timestamp"]
    /\ attention["timestamp"] # eegPow["timestamp"]

\* C3: incomplete-group and reset law.  A meditation frame taken while one
\* of the three slots is empty appends no record and raises no error,
\* whatever the timestamps of the occupied slots; so does a meditation
\* frame that directly follows a meditation frame.
C3_IncompleteGroup ==
    [][(Stepped /\ MeditationFrame(Taken))
       => /\ ~SlotsOccupied
             => power_levels' = power_levels /\ error' = NoError
          /\ (Len(data_lines) >= 1 /\ MeditationFrame(LastLine))
             => power_levels' = power_levels /\ error' = NoError
    ]_vars

\* a meditation frame has closed an incomplete group whose signal-quality
\* frame has another timestamp, and a second meditation frame has followed
\* it; neither made a record or an error
C3_Witness ==
    /\ Len(data_lines) = 3
    /\ SignalQualityFrame(data_lines[1])
    /\ MeditationFrame(data_lines[2])
    /\ MeditationFrame(data_lines[3])
    /\ Msg(data_lines[1])["timestamp"] # Msg(data_lines[2])["timestamp"]
    /\ power_levels = <<>>
    /\ error = NoError

\* C4 as claimed: after a meditation frame has been taken, in each of the
\* three cases (group complete, incomplete, rejected), the three slots are
\* empty.
C4_Original ==
    (Len(data_lines) >= 1 /\ MeditationFrame(LastLine)) => SlotsEmpty

\* C4, amended: after a meditation frame has been taken without an error
\* (group complete or incomplete) the three slots are empty; when the group
\* is rejected the assertion ends populate_from_data before the reset, and
\* the three slots still hold the rejected messages.
C4_SlotsReset ==
    (Len(data_lines) >= 1 /\ MeditationFrame(LastLine))
    => /\ error = NoError => SlotsEmpty
       /\ error # NoError => SlotsOccupied

\* a complete group has been closed and its slots are empty again
C4_Witness ==
    /\ Len(data_lines) >= 4
    /\ MeditationFrame(LastLine)
    /\ Len(power_levels) = 1
    /\ error = NoError
    /\ SlotsEmpty

\* C5 as claimed: every frame whose eSense holds meditation is taken as the
\* meditation trigger, which always ends with the three slots empty, also
\* when the eSense holds attention as well; every frame whose eSense holds
\* attention and no meditation is stored as the pending attention.
C5_EveryMeditationTriggers ==
    [][(Stepped /\ Decode(Taken).ok /\ error' = NoError)
       => /\ HasMeditation(Msg(Taken))
             => poorSigLev' = None /\ eegPow' = None /\ attention' = None
          /\ (HasAttention(Msg(Taken)) /\ ~HasMeditation(Msg(Taken)))
             => attention' = Msg(Taken)
    ]_vars

RECURSIVE RawPairs(_)
\* the (timestamp, rawEeg) pairs of the lines that carry rawEeg, in order
RawPairs(lines) ==
    IF lines = <<>> THEN <<>>
    ELSE LET m == Msg(Head(lines))
         IN  (IF HasRaw(m) THEN <<<<m["timestamp"], m["rawEeg"]>>>> ELSE <<>>)
             \o RawPairs(Tail(lines))

\* C6: raw sample order preservation.  As long as no line has raised an
\* error, raw_eeg is the sequence of (timestamp, rawEeg) pairs of the lines
\* taken that carry rawEeg, in their order, whatever lines lie between.
C6_RawOrder ==
    error = NoError => raw_eeg = RawPairs(data_lines)

\* two different raw samples with a completed group between them
C6_Witness ==
    /\ Len(data_lines) = 5
    /\ HasRaw(Msg(data_lines[1]))
    /\ HasRaw(Msg(data_lines[5]))
    /\ Len(raw_eeg) = 2
    /\ raw_eeg[1] # raw_eeg[2]
    /\ Len(power_levels) = 1
    /\ error = NoError

\* the place of the last line carrying a facet, 0 when there is none
LastIndex(lines, Has(_)) ==
    LET found == {i \in 1..Len(lines) : Has(Msg(lines[i]))}
    IN  IF found = {} THEN 0
        ELSE CHOOSE i \in found : \A j \in found : j <= i

\* C7 as claimed: a record is made only when the signal-quality, the
\* power-bands, the attention and the meditation message it is made of
\* arrived in that relative order with one timestamp.
C7_Original ==
    [][(Stepped /\ power_levels' # power_levels /\ MeditationFrame(Taken))
       => LET sq == LastIndex(data_lines, HasSignalQuality)
              pb == LastIndex(data_lines, HasPowerBands)
              att == LastIndex(data_lines, HasAttention)
          IN  /\ 0 < sq /\ sq < pb /\ pb < att
              /\ SameTimestamp(Msg(data_lines[sq]), Msg(data_lines[pb]),
                               Msg(data_lines[att]), Msg(Taken))
    ]_vars

\* the three kinds, each once, in some order
OneOfEachKind(a, b, c) ==
    \E sq, pb, att \in {a, b, c} :
        /\ SignalQualityFrame(sq) /\ PowerBandsFrame(pb)
        /\ AttentionFrame(att)

\* C7, amended: a record is made only by a frame carrying meditation, when a
\* signal-quality, a power-bands and an attention message have arrived
\* before the meditation and the four timestamps are identical; the order of
\* the first three among themselves does not matter: a signal-quality, a
\* power-bands and an attention frame in any order, followed by a
\* meditation frame with the same timestamp, make one record.
C7_MeditationLast ==
    [][Stepped =>
        LET n == Len(data_lines')
            sq == LastIndex(data_lines', HasSignalQuality)
            pb == LastIndex(data_lines', HasPowerBands)
            att == LastIndex(data_lines, HasAttention)
        IN  /\ power_levels' # power_levels
               => /\ HasMeditation(Msg(Taken))
                  /\ sq > 0 /\ pb > 0 /\ att > 0
                  /\ SameTimestamp(Msg(data_lines'[sq]), Msg(data_lines'[pb]),
                                   Msg(data_lines[att]), Msg(Taken))
            /\ (/\ n >= 4
                /\ OneOfEachKind(data_lines'[n - 3], data_lines'[n - 2],
                                 data_lines'[n - 1])
                /\ MeditationFrame(Taken)
                /\ \A i \in (n - 3)..(n - 1) :
                       Msg(data_lines'[i])["timestamp"]
                         = Msg(Taken)["timestamp"])
               => /\ Len(power_levels') = Len(power_levels) + 1
                  /\ error' = NoError
    ]_vars

\* a record made of a group that arrived power-bands first, signal-quality
\* second
C7_Witness ==
    /\ Len(data_lines) = 4
    /\ PowerBandsFrame(data_lines[1])
    /\ SignalQualityFrame(data_lines[2])
    /\ AttentionFrame(data_lines[3])
    /\ MeditationFrame(data_lines[4])
    /\ Len(power_levels) = 1
    /\ error = NoError

\* the message a slot must hold: that of the last line carrying the facet
LastArrived(lines, Has(_)) == Msg(lines[LastIndex(lines, Has)])

\* C8: slot overwrite, last value wins.  Each slot is empty or holds the
\* message of the last line that carried its facet, never an earlier one;
\* and a meditation frame taken while the three slots are occupied checks
\* the timestamps of, and makes its record from, the last-arrived message
\* of each kind.
C8_LastValueWins ==
    [][Stepped =>
        /\ poorSigLev' # None
             => poorSigLev' = LastArrived(data_lines', HasSignalQuality)
        /\ eegPow' # None
             => eegPow' = LastArrived(data_lines', HasPowerBands)
        /\ attention' # None
             => attention' = LastArrived(data_lines', HasAttention)
        /\ (MeditationFrame(Taken) /\ SlotsOccupied)
             => LET sq == LastArrived(data_lines, HasSignalQuality)
                    pb == LastArrived(data_lines, HasPowerBands)
                    att == LastArrived(data_lines, HasAttention)
                IN  IF SameTimestamp(sq, pb, att, Msg(Taken))
                    THEN /\ error' = NoError
                         /\ power_levels' =
                              Append(power_levels,
                                     GroupRecord(sq, pb, att, Msg(Taken)))
                    ELSE /\ error' = "AssertionError"
                         /\ power_levels' = power_levels
    ]_vars

\* two signal-quality frames with different values arrived with no
\* meditation between them, and the record holds the value of the second
C8_Witness ==
    /\ Len(data_lines) = 5
    /\ SignalQualityFrame(data_lines[1])
    /\ SignalQualityFrame(data_lines[2])
    /\ Msg(data_lines[1])["poorSignalLevel"]
         # Msg(data_lines[2])["poorSignalLevel"]
    /\ MeditationFrame(data_lines[5])
    /\ Len(power_levels) = 1
    /\ power_levels[1][2] = Msg(data_lines[2])["poorSignalLevel"]
    /\ error = NoError

-----------------------------------------------------------------------------
(* Properties of split_data *)

RECURSIVE Join(_, _)
\* sep.join(pieces)
Join(pieces, sep) ==
    IF pieces = <<>> THEN <<>>
    ELSE IF Len(pieces) = 1 THEN pieces[1]
    ELSE pieces[1] \o <<sep>> \o Join(Tail(pieces), sep)

CountOf(str, c) == Cardinality({i \in 1..Len(str) : str[i] = c})

\* what follows the last carriage return of the buffer
FinalFragment(str) ==
    LET at == {i \in 1..Len(str) : str[i] = CR}
    IN  IF at = {} THEN str
        ELSE SubSeq(str, (CHOOSE i \in at : \A j \in at : j <= i) + 1,
                    Len(str))

FinalDropped == Len(splitted) = CountOf(output, CR)

FinalKept == Len(splitted) = CountOf(output, CR) + 1

\* C9: framing.  The result of split_data holds the fragments between the
\* carriage returns of the buffer, in order and unchanged, with at most the
\* final fragment removed; when the final fragment does not end with the
\* closing brace, exactly the final fragment is removed and each earlier
\* one, empty and malformed ones too, is returned.
C9_Framing ==
    pc = "done" =>
        /\ \A i \in 1..Len(splitted) : CountOf(splitted[i], CR) = 0
        /\ \/ FinalKept /\ Join(splitted, CR) = output
           \/ /\ FinalDropped
              /\ Join(Append(splitted, FinalFragment(output)), CR) = output
        /\ ~endswith(FinalFragment(output), "}") => FinalDropped

\* a buffer cut in the middle of an object, after an empty fragment and a
\* second fragment: both are returned and the cut one is not
C9_Witness ==
    /\ pc = "done"
    /\ FinalFragment(output) # <<>>
    /\ ~endswith(FinalFragment(output), "}")
    /\ Len(splitted) = 2
    /\ splitted[1] = <<>>
    /\ splitted[2] # <<>>
    /\ FinalDropped

\* C10: split_data removes the final fragment exactly when its trimmed
\* content is empty or it does not end with the closing brace: an empty or
\* blank final fragment is removed, one ending with the brace is kept.
C10_DropRule ==
    pc = "done" =>
        LET final == FinalFragment(output)
        IN  /\ FinalDropped <=> (strip(final) = <<>> \/ ~endswith(final, "}"))
            /\ FinalKept <=> ~FinalDropped
            /\ FinalKept => splitted[Len(splitted)] = final

\* a blank final fragment has been removed after a complete frame
C10_Witness ==
    /\ pc = "done"
    /\ FinalFragment(output) # <<>>
    /\ strip(FinalFragment(output)) = <<>>
    /\ FinalDropped
    /\ Len(splitted) = 1
    /\ endswith(splitted[1], "}")

-----------------------------------------------------------------------------
(* Raw samples and the correlation slots *)

\* a raw-amplitude frame: it decodes and carries rawEeg and no other facet
RawFrame(line) ==
    /\ Decode(line).ok /\ HasRaw(Msg(line)) /\ In("timestamp", Msg(line))
    /\ ~HasSignalQuality(Msg(line)) /\ ~HasPowerBands(Msg(line))
    /\ ~In("eSense", Msg(line))

RECURSIVE WithoutRaw(_)
\* the lines that are not raw-amplitude frames, in their order
WithoutRaw(lines) ==
    IF lines = <<>> THEN <<>>
    ELSE IF RawFrame(Head(lines)) THEN WithoutRaw(Tail(lines))
    ELSE <<Head(lines)>> \o WithoutRaw(Tail(lines))

\* C11: a raw-amplitude frame leaves the three slots and power_levels as
\* they were and raises nothing; a frame without a rawEeg key leaves raw_eeg
\* as it was; and when the lines taken, the raw-amplitude frames among them
\* set aside, end with a signal-quality, a power-bands, an attention and a
\* meditation frame of one timestamp, the meditation step appends exactly
\* the record of those four.
C11_RawIndependent ==
    [][Stepped =>
        LET core == WithoutRaw(data_lines')
            k == Len(core)
        IN  /\ RawFrame(Taken)
               => /\ poorSigLev' = poorSigLev /\ eegPow' = eegPow
                  /\ attention' = attention
                  /\ power_levels' = power_levels /\ error' = NoError
            /\ ~HasRaw(Msg(Taken)) => raw_eeg' = raw_eeg
            /\ (/\ MeditationFrame(Taken)
                /\ k >= 4
                /\ SignalQualityFrame(core[k - 3])
                /\ PowerBandsFrame(core[k - 2])
                /\ AttentionFrame(core[k - 1])
                /\ SameTimestamp(Msg(core[k - 3]), Msg(core[k - 2]),
                                 Msg(core[k - 1]), Msg(core[k])))
               => /\ error' = NoError
                  /\ power_levels' =
                       Append(power_levels,
                              GroupRecord(Msg(core[k - 3]), Msg(core[k - 2]),
                                          Msg(core[k - 1]), Msg(core[k])))
    ]_vars

\* a group with a raw-amplitude frame between its members has made its one
\* record, and the raw sample is in raw_eeg
C11_Witness ==
    /\ data_lines = <<PoorSignalLine("1", "0"),
                      EegPowerLine("1", <<"10", "20", "30", "40", "50", "60">>),
                      RawEegLine("1", "5"),
                      AttentionLine("1", "55"), MeditationLine("1", "65")>>
    /\ power_levels = <<Nums(<<1, 0, 10, 20, 30, 40, 50, 60, 55, 65>>)>>
    /\ raw_eeg = <<Nums(<<1, 5>>)>>
    /\ error = NoError

-----------------------------------------------------------------------------
(* Properties of capture_emotion and eeg_data_from_chunks *)

\* C12: no partial output on a fatal error.  Whenever a frame that does
\* not decode or a completed group whose timestamps differ has raised its
\* exception during the capture for a label, capture_emotion has stopped
\* there: the folder of the label has not been created, neither
\* raw_eeg.txt nor power_levels.txt has been written, and no step of
\* to_tsv_files is or has been under way; the records accumulated before
\* the failing frame are lost with the object.
C12_NoPartialOutput ==
    /\ error \in {"JSONDecodeError", "AssertionError"}
       => /\ cpc = "raised"
          /\ ~folder /\ raw_file = None /\ levels_file = None
    /\ cpc \in {"mkdir", "raw_tsv", "levels_tsv", "done"} => error = NoError

\* a capture whose first four frames made a record and whose fifth frame
\* did not decode has been aborted with nothing on disk
C12_Witness ==
    /\ cpc = "raised"
    /\ error = "JSONDecodeError"
    /\ chunk_list = <<GroupOpening("1", "1"), MeditationLine("1", "65") \o <<CR>>,
                      MalformedLine \o <<CR>>>>
    /\ power_levels = <<Nums(<<1, 0, 10, 20, 30, 40, 50, 60, 55, 65>>)>>
    /\ Len(data_lines) = 5
    /\ ~folder /\ raw_file = None /\ levels_file = None

\* populate_from_data has been called on splitted and has ended
Populated ==
    \/ cpc \in {"ask", "mkdir", "raw_tsv", "levels_tsv", "done"}
    \/ cpc = "raised" /\ pc = "done"

\* an exception of to_tsv_files has ended capture_emotion
WriteFailed == cpc = "raised" /\ folder

\* the exception populate_from_data ended with
PopulateError == IF WriteFailed THEN NoError ELSE error

\* a frame that is not well-formed structured data: it does not decode, or
\* what it decodes to is not an object
NotStructured(line) == ~Decode(line).ok \/ ~IsDict(Msg(line))

\* the places of such frames in splitted
Offending == {i \in 1..Len(splitted) : NotStructured(splitted[i])}

\* C13 as claimed: a decode failure is fatal and never skipped.  Once
\* populate_from_data has ended, the lines it took are a prefix of the
\* frames split_data returned; if one of the frames is not well-formed
\* structured data, populate_from_data has raised an exception and has
\* taken no line after the first such frame; and raw_eeg and power_levels
\* are what the frames before the failing one made.
C13_DecodeFailureFatal ==
    Populated =>
        LET n == Len(data_lines)
            before == populate_from_data(NewEegData,
                                         SubSeq(splitted, 1, n - 1), 1).eeg
        IN  /\ data_lines = SubSeq(splitted, 1, n)
            /\ Offending # {}
               => /\ PopulateError # NoError
                  /\ \A i \in Offending : n <= i
                  /\ raw_eeg = before.raw_eeg
                  /\ power_levels = before.power_levels

-----------------------------------------------------------------------------
(* The two sequences of the collector, on a long list of frames *)

IsPrefix(a, b) == Len(a) <= Len(b) /\ a = SubSeq(b, 1, Len(a))

\* C14: the two sequences are append-only and order-preserving.  In every
\* step of a long run, raw_eeg and power_levels before the step are
\* prefixes of raw_eeg and power_levels after it and each grows by at most
\* one element; a frame with rawEeg that raises nothing appends its sample
\* at the end, equal to the last sample or not; a record is only appended
\* at the end, by a frame with a meditation facet, and it carries that
\* frame's timestamp and meditation; and a meditation frame that finds the
\* three slots filled with its own timestamp appends the record of the
\* group even when it equals the record before it (nothing is
\* deduplicated).
C14_AppendOnly ==
    [][LET line == data_lines'[1]
           message == Msg(line)
           n == Len(power_levels')
       IN  /\ IsPrefix(raw_eeg, raw_eeg')
           /\ IsPrefix(power_levels, power_levels')
           /\ Len(raw_eeg') <= Len(raw_eeg) + 1
           /\ n <= Len(power_levels) + 1
           /\ (HasRaw(message) /\ error' = NoError)
              => raw_eeg' = Append(raw_eeg, <<message["timestamp"],
                                              message["rawEeg"]>>)
           /\ n = Len(power_levels) + 1
              => /\ HasMeditation(message)
                 /\ power_levels'[n][1] = message["timestamp"]
                 /\ power_levels'[n][10] = message["eSense"]["meditation"]
           /\ (/\ MeditationFrame(line)
               /\ SlotsOccupied
               /\ SameTimestamp(poorSigLev, eegPow, attention, message))
              => power_levels' =
                   Append(power_levels,
                          GroupRecord(poorSigLev, eegPow, attention, message))
    ]_vars

\* two identical groups have made two identical consecutive records, a
\* third group a different record after them, and a sample was collected
\* twice
C14_Witness ==
    /\ power_levels = <<Nums(<<1, 0, 10, 20, 30, 40, 50, 60, 55, 65>>),
                        Nums(<<1, 0, 10, 20, 30, 40, 50, 60, 55, 65>>),
                        Nums(<<2, 3, 11, 21, 31, 41, 51, 61, 44, 66>>)>>
    /\ raw_eeg = <<Nums(<<1, 5>>), Nums(<<1, 5>>)>>
    /\ error = NoError

-----------------------------------------------------------------------------
(* An exhausted stream, and the places where the chunks are cut *)

\* every chunk received is the empty string
AllEmpty == \A i \in 1..Len(chunk_list) : chunk_list[i] = <<>>

\* C15: an exhausted or silent stream is the end of the input.  When every
\* chunk the capture received is empty, the joined buffer is empty,
\* split_data returns no frame, populate_from_data ends without an
\* exception with raw_eeg and power_levels empty, and eeg_data_from_chunks
\* as a function gives that same result.
C15_SilentStream ==
    AllEmpty
    => /\ cpc \in {"split", "populate"} \/ Populated => output = <<>>
       /\ cpc = "populate" \/ Populated => splitted = <<>>
       /\ Populated
          => /\ cpc # "raised" /\ error = NoError
             /\ data_lines = <<>> /\ raw_eeg = <<>> /\ power_levels = <<>>
       /\ eeg_data_from_chunks(chunk_list)
            = [data_lines |-> <<>>, raw_eeg |-> <<>>, power_levels |-> <<>>,
               error |-> NoError]

\* two receives returned the empty string and the capture has come back
\* with an empty object, ready to ask whether to save it
C15_Witness ==
    /\ cpc = "ask"
    /\ chunk_list = <<<<>>, <<>>>>
    /\ output = <<>> /\ splitted = <<>>
    /\ raw_eeg = <<>> /\ power_levels = <<>>
    /\ error = NoError

-----------------------------------------------------------------------------
(* The receive loop of get_data_for_n_seconds *)

\* get_data_for_n_seconds is running, from the computed deadline to the
\* close of the connection
Receiving == cpc \in {"connect", "test", "recv", "close"}

\* C16: the deadline and the blocking receive.  While
\* get_data_for_n_seconds runs, end_time is the one value computed before
\* the loop; a receive that is in progress was started before the
\* deadline; when the loop has ended the deadline has passed, and if any
\* chunk was received the last receive had started before the deadline, so
\* it alone was in progress when the deadline passed and the loop ends at
\* its return; every receive appends what it returned at the end of the
\* chunks and nothing else changes them; and the connection is not closed
\* while the loop runs, is closed once when the loop has ended, and not
\* again.
C16_DeadlineLoop ==
    /\ [](/\ Receiving => end_time = duration /\ closed = 0
          /\ cpc = "recv" => recv_started = now /\ recv_started < end_time
          /\ cpc = "close"
             => /\ now >= end_time
                /\ chunk_list # <<>>
                   => /\ recv_started < end_time
                      /\ now <= recv_started + MaxLatency
          /\ cpc \in {"join", "split", "populate", "ask", "mkdir", "raw_tsv",
                      "levels_tsv", "done"} => closed = 1
          /\ closed <= 1)
    /\ [][/\ Receiving /\ cpc' # "raised" => end_time' = end_time \/ cpc = "close"
          /\ cpc' = "recv" => cpc = "test" /\ now < end_time
          /\ cpc = "test" /\ now >= end_time => cpc' = "close"
          /\ cpc = "recv" /\ cpc' = "test"
             => /\ chunk_list' = Append(chunk_list, last_recv')
                /\ now' >= now
          /\ Receiving /\ cpc # "recv" => chunk_list' = chunk_list
          /\ closed' = closed + 1 => cpc = "close" /\ cpc' = "join"
      ]_vars

\* a capture of two ticks: the first receive returned after one tick, the
\* second was started one tick before the deadline and returned one tick
\* after it, and the loop has ended with both chunks in their order
C16_Witness ==
    /\ cpc = "close"
    /\ duration = 2 /\ end_time = 2
    /\ recv_started = 1 /\ now = 3
    /\ chunk_list = <<RawEegLine("1", "5") \o <<CR>>,
                      MeditationLine("1", "65") \o <<CR>>>>
    /\ last_recv = MeditationLine("1", "65") \o <<CR>>
    /\ closed = 0

-----------------------------------------------------------------------------
(* Records and the groups they come from *)

\* C17 as claimed: no leak across groups.  Whenever a step appends a
\* record, the signal-quality, the power-bands and the attention message
\* it is built from (the last arrived of each kind) arrived after the most
\* recent earlier frame carrying a meditation facet, or after the start
\* when there is none, and no later than the frame that closes the record.
C17_NoLeak ==
    [][(Stepped /\ Len(power_levels') = Len(power_levels) + 1)
       => LET earlier == LastIndex(data_lines, HasMeditation)
          IN  /\ earlier < LastIndex(data_lines', HasSignalQuality)
              /\ earlier < LastIndex(data_lines', HasPowerBands)
              /\ earlier < LastIndex(data_lines', HasAttention)
    ]_vars

\* the frames for which the meditation branch runs: eSense holds
\* meditation and no attention
MeditationTrigger(m) == HasMeditation(m) /\ ~HasAttention(m)

\* how many of the lines taken were meditation triggers
TriggersTaken ==
    Cardinality({i \in 1..Len(data_lines) :
                     Decode(data_lines[i]).ok
                     /\ MeditationTrigger(Msg(data_lines[i]))})

\* C18: records and meditation triggers.  At every point power_levels
\* holds at most as many records as meditation triggers have been taken;
\* a step appends no record or one, at the end, and one only when the
\* frame it takes is a meditation trigger; and the timestamp of the
\* appended record is that of the trigger and of the signal-quality, the
\* power-bands and the attention message it is built from.
C18_RecordsAndTriggers ==
    /\ [](Len(power_levels) <= TriggersTaken)
    /\ [][Stepped =>
           LET n == Len(power_levels')
           IN  /\ IsPrefix(power_levels, power_levels')
               /\ n <= Len(power_levels) + 1
               /\ n = Len(power_levels) + 1
                  => /\ MeditationTrigger(Msg(Taken))
                     /\ power_levels'[n][1] = Msg(Taken)["timestamp"]
                     /\ power_levels'[n][1]
                          = LastArrived(data_lines', HasSignalQuality)["timestamp"]
                     /\ power_levels'[n][1]
                          = LastArrived(data_lines', HasPowerBands)["timestamp"]
                     /\ power_levels'[n][1]
                          = LastArrived(data_lines', HasAttention)["timestamp"]
                     /\ power_levels'[n]
                          = GroupRecord(LastArrived(data_lines', HasSignalQuality),
                                        LastArrived(data_lines', HasPowerBands),
                                        LastArrived(data_lines', HasAttention),
                                        Msg(Taken))
      ]_vars

\* two meditation triggers were taken, the first with empty slots and the
\* second closing a group of timestamp 2: one record, with that timestamp
C18_Witness ==
    /\ Len(data_lines) = 5
    /\ MeditationFrame(data_lines[1])
    /\ MeditationFrame(data_lines[5])
    /\ TriggersTaken = 2
    /\ power_levels = <<Nums(<<2, 3, 11, 21, 31, 41, 51, 61, 44, 66>>)>>
    /\ error = NoError

-----------------------------------------------------------------------------
(* Chunk boundaries *)

\* other chunk lists with the concatenation of chunks: the whole buffer in
\* one chunk, the buffer cut in two after its first atom, in its middle
\* and before its last atom, and the buffer cut in three
Rechunked(chunks) ==
    LET raw == join(chunks)
        n == Len(raw)
        third == n \div 3
    IN  {<<raw>>,
         <<SubSeq(raw, 1, third), SubSeq(raw, third + 1, 2 * third),
           SubSeq(raw, 2 * third + 1, n)>>}
        \cup {<<SubSeq(raw, 1, c), SubSeq(raw, c + 1, n)>> :
                 c \in {1, n \div 2, n - 1} \cap 0..n}

\* C19: chunk-boundary independence.  Once the capture has split and
\* processed what it received, the frames, raw_eeg, power_levels and the
\* exception it has are those eeg_data_from_chunks gives for the chunks
\* received, and the same as it gives for every other way of cutting their
\* concatenation into chunks, whether the cuts fall inside a frame, next
\* to a carriage return or between frames.
C19_ChunkBoundaries ==
    Populated
    => LET result == [data_lines |-> splitted, raw_eeg |-> raw_eeg,
                      power_levels |-> power_levels,
                      error |-> PopulateError]
       IN  /\ eeg_data_from_chunks(chunk_list) = result
           /\ \A other \in Rechunked(chunk_list) :
                  /\ join(other) = join(chunk_list)
                  /\ eeg_data_from_chunks(other) = result

\* a frame was received in two pieces and its carriage return in a third
\* chunk, and the sample of the frame has been collected
C19_Witness ==
    /\ Populated
    /\ chunk_list = <<SubSeq(RawEegLine("1", "5"), 1, 4),
                      SubSeq(RawEegLine("1", "5"), 5, Len(RawEegLine("1", "5"))),
                      <<CR>>>>
    /\ splitted = <<RawEegLine("1", "5")>>
    /\ raw_eeg = <<Nums(<<1, 5>>)>>
    /\ error = NoError

=============================================================================
